---- MODULE Spec2Model ----
(***************************************************************************)
(* Model of src/data/process_data.py: the IWC catches ETL pass.            *)
(* find_dataset() picks a spreadsheet in Downloads, main() loads it, adds  *)
(* the CountryCode column, aggregates, builds the output document, writes  *)
(* it as JSON and prints a summary.                                        *)
(***************************************************************************)
EXTENDS Integers, Sequences, FiniteSets, TLC

\* ------------------------------------------------------------------ bounds
MaxRows == 2
MaxFiles == 2
MaxRuns == 2

\* Sample values the input cells are drawn from.
Years == {1985, 1986}
Nations == {"Japan", "Norway", "Peru"}
\* cells are integers of either sign: the code validates nothing
Counts == {-1, 0, 1}
DataSpecies == {"Fin"}
Mtimes == {1, 2}

\* --------------------------------------------------------- program constants
\* dict SPECIES in insertion order: <<column name, display name>>
SPECIES ==
  << <<"TBlue", "Blue Whale">>, <<"PBlue", "Pygmy Blue Whale">>,
     <<"Fin", "Fin Whale">>, <<"Spm", "Sperm Whale">>,
     <<"Hbk", "Humpback Whale">>, <<"Sei", "Sei Whale">>,
     <<"Bryd", "Bryde's Whale">>, <<"Mi:C", "Common Minke">>,
     <<"Mi:A", "Antarctic Minke">>, <<"Gray", "Gray Whale">>,
     <<"Bhd", "Bowhead Whale">>, <<"Ri", "Right Whale">>,
     <<"Unsp", "Unspecified">> >>

\* dict COUNTRY_CODES in insertion order: <<nation name, ISO code>>
COUNTRY_CODES ==
  << <<"Japan", "JPN">>, <<"USSR", "RUS">>, <<"Russia", "RUS">>,
     <<"Indonesia", "IDN">>, <<"Denmark", "DNK">>, <<"Iceland", "ISL">>,
     <<"Norway", "NOR">>, <<"Saint Vincent & the Grenadines", "VCT">>,
     <<"Korea", "KOR">>, <<"United States", "USA">>, <<"Portugal", "PRT">>,
     <<"Canada", "CAN">> >>

\* The missing value pandas puts where Series.map finds no key.
NaN == "NaN"

SOURCE == "IWC Total Catches Database"
URL == "https://iwc.int/management-and-conservation/whaling/total-catches"
NotFoundMessage == <<"No IWC catches dataset found in Downloads.", URL>>

\* ------------------------------------------------------------ small helpers
Keys(dict) == {dict[i][1] : i \in 1..Len(dict)}
KeyList(dict) == [i \in 1..Len(dict) |-> dict[i][1]]
Lookup(dict, k) == dict[CHOOSE i \in 1..Len(dict) : dict[i][1] = k][2]

\* Python's str ordering (by code point) on the names that occur as Nation.
Alphabetical ==
  <<"Canada", "Denmark", "Iceland", "Indonesia", "Japan", "Korea", "Norway",
    "Peru", "Portugal", "Russia", "Saint Vincent & the Grenadines", "USSR",
    "United States">>
StrRank(s) == CHOOSE i \in 1..Len(Alphabetical) : Alphabetical[i] = s

RECURSIVE Concat(_)
Concat(seqs) == IF seqs = <<>> THEN <<>> ELSE Head(seqs) \o Concat(Tail(seqs))

RECURSIVE SortedInts(_)
\* sorted(set of ints), ascending
SortedInts(S) ==
  IF S = {} THEN <<>>
  ELSE LET m == CHOOSE x \in S : \A y \in S : x <= y
       IN <<m>> \o SortedInts(S \ {m})

RECURSIVE ColumnSum(_, _)
\* DataFrame column .sum() over a sequence of rows
ColumnSum(rows, col) ==
  IF rows = <<>> THEN 0 ELSE Head(rows)[col] + ColumnSum(Tail(rows), col)

\* ------------------------------------------------------------ find_dataset
\* fnmatch of the two glob patterns on the sample file names (case-sensitive)
FileNames ==
  {"catches_2023.xlsx", "IWC_Catches.xlsx", "Catches_catches.xlsx",
   "catches_bad.xlsx", "Catches_raw.xlsx", "whales.xlsx"}
FnmatchAnyXlsx(name, pattern) == name \in FileNames
Fnmatch(name, pattern) ==
  CASE pattern = "*catches*.xlsx" ->
         name \in {"catches_2023.xlsx", "Catches_catches.xlsx", "catches_bad.xlsx"}
    [] pattern = "*Catches*.xlsx" ->
         name \in {"IWC_Catches.xlsx", "Catches_catches.xlsx", "Catches_raw.xlsx"}
    [] OTHER -> FALSE

\* list(DOWNLOADS.glob(pattern)): the matching files, in directory order
Glob(dir, pattern) ==
  LET Hit(f) == Fnmatch(f.name, pattern) IN SelectSeq(dir, Hit)

\* line 50: the two glob results concatenated (a file matching both is listed twice)
xlsx_files(dir) == Glob(dir, "*catches*.xlsx") \o Glob(dir, "*Catches*.xlsx")

\* sort(key=st_mtime, reverse=True): a comes no later than b
MtimeOlderFirst(a, b) == a.mtime <= b.mtime
MtimeNewerFirst(a, b) == a.mtime >= b.mtime

RECURSIVE SortFiles(_)
\* list.sort is stable: among equal keys the earlier list element stays first
SortFiles(files) ==
  IF files = <<>> THEN <<>>
  ELSE LET rest == SortFiles(Tail(files))
           f == Head(files)
           k == Cardinality({i \in 1..Len(rest) : ~MtimeNewerFirst(f, rest[i])})
       IN SubSeq(rest, 1, k) \o <<f>> \o SubSeq(rest, k + 1, Len(rest))

\* lines 48-57: [raised, path]
find_dataset(dir) ==
  IF xlsx_files(dir) = <<>>
  THEN [raised |-> TRUE, path |-> <<>>]
  ELSE [raised |-> FALSE, path |-> <<SortFiles(xlsx_files(dir))[1]>>]

\* ------------------------------------------------------------------- main
RequiredColumns == {"Year", "Nation", "Total"}

\* line 68: the SPECIES keys that are columns of the table, in SPECIES order
SpeciesCols(columns) ==
  LET Present(c) == c \in columns IN SelectSeq(KeyList(SPECIES), Present)

SeqRange(s) == {s[i] : i \in 1..Len(s)}

\* line 71: Series.map(COUNTRY_CODES) on one cell
MapCountryCode(nation) ==
  IF nation \in Keys(COUNTRY_CODES) THEN Lookup(COUNTRY_CODES, nation) ELSE NaN

\* line 71: df['CountryCode'] = df['Nation'].map(COUNTRY_CODES)
Enrich(table) ==
  [columns |-> table.columns \cup {"CountryCode"},
   rows |-> [i \in 1..Len(table.rows) |->
               [c \in table.columns \cup {"CountryCode"} |->
                  IF c = "CountryCode"
                  THEN MapCountryCode(table.rows[i]["Nation"])
                  ELSE table.rows[i][c]]]]

\* groupby(..., dropna=True): a row whose group key holds a missing value is in
\* no group.  Year and Nation cells are always populated in the modelled tables.
GroupKeysKeepNa(rows) ==
  {<<rows[i]["Year"], rows[i]["Nation"], rows[i]["CountryCode"]>> :
     i \in 1..Len(rows)}
GroupKeys(rows) ==
  {<<rows[i]["Year"], rows[i]["Nation"], rows[i]["CountryCode"]>> :
     i \in {j \in 1..Len(rows) : rows[j]["CountryCode"] # NaN}}

\* groupby(sort=True): groups ordered by key; CountryCode is a function of
\* Nation, so Year then Nation decides.
KeyBefore(a, b) ==
  \/ a[1] < b[1]
  \/ a[1] = b[1] /\ StrRank(a[2]) <= StrRank(b[2])

RECURSIVE SortedKeys(_)
SortedKeys(S) ==
  IF S = {} THEN <<>>
  ELSE LET m == CHOOSE x \in S : \A y \in S : KeyBefore(x, y)
       IN <<m>> \o SortedKeys(S \ {m})

\* lines 74-77: yearly_by_country
YearlyByCountry(table) ==
  LET cols == SeqRange(SpeciesCols(table.columns))
      keys == SortedKeys(GroupKeys(table.rows))
      Group(k) ==
        LET In(r) == r["Year"] = k[1] /\ r["Nation"] = k[2] /\ r["CountryCode"] = k[3]
        IN SelectSeq(table.rows, In)
  IN [i \in 1..Len(keys) |->
        [c \in {"Year", "Nation", "CountryCode", "Total"} \cup cols |->
           CASE c = "Year" -> keys[i][1]
             [] c = "Nation" -> keys[i][2]
             [] c = "CountryCode" -> keys[i][3]
             [] OTHER -> ColumnSum(Group(keys[i]), c)]]

\* sorted(df['Year'].unique())
UniqueYears(table) ==
  SortedInts({table.rows[i]["Year"] : i \in 1..Len(table.rows)})

\* lines 86-94: species_yearly, summed from the by-country table instead
SpeciesYearlyFromGroups(table) ==
  LET years == UniqueYears(table)
      groups == YearlyByCountry(table)
      cols == SeqRange(SpeciesCols(table.columns))
      YearData(y) == LET In(r) == r["Year"] = y IN SelectSeq(groups, In)
  IN [i \in 1..Len(years) |->
        [k \in {"year", "total"} \cup cols |->
           CASE k = "year" -> years[i]
             [] k = "total" -> ColumnSum(YearData(years[i]), "Total")
             [] OTHER -> ColumnSum(YearData(years[i]), k)]]

\* lines 86-94: species_yearly
SpeciesYearly(table) ==
  LET years == UniqueYears(table)
      cols == SeqRange(SpeciesCols(table.columns))
      YearData(y) == LET In(r) == r["Year"] = y IN SelectSeq(table.rows, In)
  IN [i \in 1..Len(years) |->
        [k \in {"year", "total"} \cup cols |->
           CASE k = "year" -> years[i]
             [] k = "total" -> ColumnSum(YearData(years[i]), "Total")
             [] OTHER -> ColumnSum(YearData(years[i]), k)]]

\* line 119: the test that puts a species into an entry's mapping
KeepsNonNegative(count) == count >= 0
KeepsSpecies(count) == count > 0

\* lines 111-120: one byCountryYear entry
Entry(row, cols) ==
  [year |-> row["Year"],
   country |-> row["Nation"],
   code |-> row["CountryCode"],
   total |-> row["Total"],
   species |-> [c \in {d \in SeqRange(cols) : KeepsSpecies(row[d])} |-> row[c]]]

\* lines 97-121: the output document
BuildOutput(table, groups, timeline) ==
  [metadata |-> [source |-> SOURCE,
                 url |-> URL,
                 years |-> UniqueYears(table),
                 countries |-> KeyList(COUNTRY_CODES),
                 species |-> SPECIES],
   timeline |-> timeline,
   byCountryYear |->
     [i \in 1..Len(groups) |-> Entry(groups[i], SpeciesCols(table.columns))]]

\* ---------------------------------------------------------- serialization
\* json.dump(output, f, indent=2) emits the document's items in dict insertion
\* order.  An item is <<section, key, string value, integer value>>.
Tok(section, key, str, n) == <<section, key, str, n>>

MetadataTokens(m) ==
  <<Tok("metadata", "source", m.source, 0), Tok("metadata", "url", m.url, 0)>>
  \o [i \in 1..Len(m.years) |-> Tok("metadata", "years", "", m.years[i])]
  \o [i \in 1..Len(m.countries) |-> Tok("metadata", "countries", m.countries[i], 0)]
  \o [i \in 1..Len(m.species) |-> Tok("metadata.species", m.species[i][1], m.species[i][2], 0)]

\* a timeline row: year, the species fields in SPECIES order, total
TimelineTokens(row) ==
  LET Has(c) == c \in DOMAIN row
      cols == SelectSeq(KeyList(SPECIES), Has)
  IN <<Tok("timeline", "year", "", row["year"])>>
     \o [i \in 1..Len(cols) |-> Tok("timeline", cols[i], "", row[cols[i]])]
     \o <<Tok("timeline", "total", "", row["total"])>>

\* a byCountryYear entry: year, country, code, total, species
EntryTokens(e) ==
  LET Has(c) == c \in DOMAIN e.species
      cols == SelectSeq(KeyList(SPECIES), Has)
  IN <<Tok("byCountryYear", "year", "", e.year),
       Tok("byCountryYear", "country", e.country, 0),
       Tok("byCountryYear", "code", e.code, 0),
       Tok("byCountryYear", "total", "", e.total)>>
     \o [i \in 1..Len(cols) |-> Tok("byCountryYear.species", cols[i], "", e.species[cols[i]])]

\* line 129
Serialize(doc) ==
  MetadataTokens(doc.metadata)
  \o Concat([i \in 1..Len(doc.timeline) |-> TimelineTokens(doc.timeline[i])])
  \o Concat([i \in 1..Len(doc.byCountryYear) |-> EntryTokens(doc.byCountryYear[i])])

\* lines 128-129: the file after open(path, 'w') and a completed json.dump
AppendedFile(old, doc) ==
  [exists |-> TRUE, content |-> old.content \o Serialize(doc)]
WrittenFile(old, doc) == [exists |-> TRUE, content |-> Serialize(doc)]

\* ---------------------------------------------------------------- reporter
\* sort_values(ascending=False) with the default kind='quicksort', which is not
\* stable: every arrangement of the pairs with non-increasing totals is a
\* possible result (nations of equal total come in any order)
SortTotalsDesc(pairs) ==
  {s \in [1..Len(pairs) -> SeqRange(pairs)] :
     /\ \A i, j \in 1..Len(pairs) : i # j => s[i] # s[j]
     /\ \A i, j \in 1..Len(pairs) : i < j => s[i][2] >= s[j][2]}

\* lines 138-139: groupby('Nation')['Total'].sum(), sorted, head(10); the set of
\* sequences of <<nation, total>> the loop at line 139 can print
TopNations(groups) ==
  LET nations == {groups[i]["Nation"] : i \in 1..Len(groups)}
      ByName == SortedKeys({<<0, n>> : n \in nations})
      Of(n) == LET In(r) == r["Nation"] = n IN SelectSeq(groups, In)
      totals == [i \in 1..Len(ByName) |->
                   <<ByName[i][2], ColumnSum(Of(ByName[i][2]), "Total")>>]
  IN {SubSeq(sorted, 1, IF Len(sorted) < 10 THEN Len(sorted) ELSE 10) :
        sorted \in SortTotalsDesc(totals)}

\* ------------------------------------------------------------------ state
VARIABLES
  downloads,          \* the Downloads directory: files in directory order
  outDir,             \* whether OUTPUT_DIR exists
  outFile,            \* OUTPUT_DIR / 'whaling_data.json': [exists, content]
  pc,                 \* the next step of main(), or "done" / "failed"
  dataset_path,       \* <<>> until find_dataset returns, then <<file>>
  df,                 \* the loaded table: [columns, rows]
  yearly_by_country,
  species_yearly,
  output,
  printed,            \* the reporter's top-nations lines
  err,                \* the exception that ended the run
  wrote,              \* json.dump completed in this run
  run,                \* number of the current run
  prevOut,            \* <<content>> left by the previous run's completed write
  startDir, startFile,\* outDir and outFile when the current run started
  origFile            \* outFile before the first run

vars == <<downloads, outDir, outFile, pc, dataset_path, df, yearly_by_country,
          species_yearly, output, printed, err, wrote, run, prevOut,
          startDir, startFile, origFile>>

locals == <<dataset_path, df, yearly_by_country, species_yearly, output, printed>>
fs == <<outDir, outFile>>
history == <<run, prevOut, startDir, startFile, origFile>>

NoTable == [columns |-> {}, rows |-> <<>>]
NoOutput ==
  [metadata |-> [source |-> "", url |-> "", years |-> <<>>,
                 countries |-> <<>>, species |-> <<>>],
   timeline |-> <<>>, byCountryYear |-> <<>>]
NoError == [type |-> "", msg |-> <<>>]
Absent == [exists |-> FALSE, content |-> <<>>]

\* --------------------------------------------------------------- the inputs
MkRow(y, n, t, sp) ==
  [c \in RequiredColumns \cup DOMAIN sp |->
     CASE c = "Year" -> y [] c = "Nation" -> n [] c = "Total" -> t
       [] OTHER -> sp[c]]

RowSpace(cs) ==
  {MkRow(y, n, t, sp) : y \in Years, n \in Nations, t \in Counts, sp \in [cs -> Counts]}

\* a first sheet with the species columns cs and the given rows
Sheet(cs, rows) == [valid |-> TRUE, columns |-> RequiredColumns \cup cs, rows |-> rows]

\* a file that is no spreadsheet, and a sheet without the Nation column
Corrupt == [valid |-> FALSE, columns |-> {}, rows |-> <<>>]
NoNationSheet ==
  [valid |-> TRUE, columns |-> {"Year", "Total"},
   rows |-> <<[c \in {"Year", "Total"} |-> IF c = "Year" THEN 1985 ELSE 1]>>]

\* the scenario of the specification's section 8
ScenarioSheet ==
  [valid |-> TRUE, columns |-> RequiredColumns \cup {"TBlue", "Fin"},
   rows |-> <<MkRow(1985, "Japan", 5, [c \in {"TBlue", "Fin"} |-> IF c = "TBlue" THEN 2 ELSE 0]),
              MkRow(1985, "Norway", 5, [c \in {"TBlue", "Fin"} |-> IF c = "Fin" THEN 3 ELSE 0])>>]
MixedSheet ==
  [valid |-> TRUE, columns |-> RequiredColumns \cup {"Fin"},
   rows |-> <<MkRow(1986, "Peru", 4, [c \in {"Fin"} |-> 1]),
              MkRow(1985, "Japan", 2, [c \in {"Fin"} |-> 2]),
              MkRow(1986, "Japan", 1, [c \in {"Fin"} |-> 0])>>]
HeaderOnlySheet ==
  [valid |-> TRUE, columns |-> RequiredColumns \cup {"TBlue"}, rows |-> <<>>]

SampleSheet(name) ==
  CASE name = "catches_2023.xlsx" -> ScenarioSheet
    [] name = "IWC_Catches.xlsx" -> MixedSheet
    [] name = "Catches_catches.xlsx" -> HeaderOnlySheet
    [] name = "catches_bad.xlsx" -> Corrupt
    [] name = "Catches_raw.xlsx" -> NoNationSheet
    [] OTHER -> ScenarioSheet

\* directories of up to MaxFiles files with distinct names
EnvDirs ==
  UNION {{d \in [1..n -> {[name |-> nm, mtime |-> t, sheet |-> SampleSheet(nm)] :
                            nm \in FileNames, t \in Mtimes}] :
            \A i, j \in 1..n : i # j => d[i].name # d[j].name} :
         n \in 0..MaxFiles}

StaleFile ==
  [exists |-> TRUE,
   content |-> <<Tok("metadata", "source", SOURCE, 0),
                 Tok("metadata", "years", "", 1900)>>]

InitRun ==
  /\ pc = "find"
  /\ dataset_path = <<>>
  /\ df = NoTable
  /\ yearly_by_country = <<>>
  /\ species_yearly = <<>>
  /\ output = NoOutput
  /\ printed = <<>>
  /\ err = NoError
  /\ wrote = FALSE
  /\ run = 1
  /\ prevOut = <<>>
  /\ startDir = outDir
  /\ startFile = outFile
  /\ origFile = outFile

CatchesFile(sheet) == [name |-> "catches_2023.xlsx", mtime |-> 1, sheet |-> sheet]

\* one catches file holding any sheet of up to MaxRows rows over the sample cells
\* (or a bad file, or no file at all), and no earlier output
Init ==
  /\ \/ downloads = <<>>
     \/ \E s \in {Corrupt, NoNationSheet} : downloads = <<CatchesFile(s)>>
     \/ \E cs \in SUBSET DataSpecies : \E n \in 0..MaxRows :
          \E rows \in [1..n -> RowSpace(cs)] : downloads = <<CatchesFile(Sheet(cs, rows))>>
  /\ outDir = FALSE
  /\ outFile = Absent
  /\ InitRun

\* any directory of sample files, with or without an earlier output
InitEnv ==
  /\ downloads \in EnvDirs
  /\ \E prior \in {<<FALSE, Absent>>, <<TRUE, Absent>>, <<TRUE, StaleFile>>} :
       /\ outDir = prior[1]
       /\ outFile = prior[2]
  /\ InitRun

\* ------------------------------------------------------------------ actions
Fail(type, msg) ==
  /\ pc' = "failed"
  /\ err' = [type |-> type, msg |-> msg]

\* line 61, find_dataset returns
FindDataset ==
  /\ pc = "find"
  /\ ~find_dataset(downloads).raised
  /\ dataset_path' = find_dataset(downloads).path
  /\ pc' = "load"
  /\ UNCHANGED <<downloads, fs, df, yearly_by_country, species_yearly, output,
                 printed, err, wrote, history>>

\* line 61, find_dataset raises FileNotFoundError
FindDatasetFail ==
  /\ pc = "find"
  /\ find_dataset(downloads).raised
  /\ Fail("FileNotFoundError", NotFoundMessage)
  /\ UNCHANGED <<downloads, fs, locals, wrote, history>>

\* line 64
Load ==
  /\ pc = "load"
  /\ dataset_path[1].sheet.valid
  /\ df' = [columns |-> dataset_path[1].sheet.columns,
            rows |-> dataset_path[1].sheet.rows]
  /\ pc' = "transform"
  /\ UNCHANGED <<downloads, fs, dataset_path, yearly_by_country, species_yearly,
                 output, printed, err, wrote, history>>

\* line 64, read_excel raises on a file that is no spreadsheet
LoadFail ==
  /\ pc = "load"
  /\ ~dataset_path[1].sheet.valid
  /\ Fail("ValueError", <<>>)
  /\ UNCHANGED <<downloads, fs, locals, wrote, history>>

\* lines 68-121
Transform ==
  /\ pc = "transform"
  /\ RequiredColumns \subseteq df.columns
  /\ df' = Enrich(df)
  /\ yearly_by_country' = YearlyByCountry(df')
  /\ species_yearly' = SpeciesYearly(df')
  /\ output' = BuildOutput(df', yearly_by_country', species_yearly')
  /\ pc' = "mkdir"
  /\ UNCHANGED <<downloads, fs, dataset_path, printed, err, wrote, history>>

\* lines 71-93, a column the code indexes is missing
TransformFail ==
  /\ pc = "transform"
  /\ ~(RequiredColumns \subseteq df.columns)
  /\ Fail("KeyError", <<>>)
  /\ UNCHANGED <<downloads, fs, locals, wrote, history>>

\* line 124
Mkdir ==
  /\ pc = "mkdir"
  /\ outDir' = TRUE
  /\ pc' = "write"
  /\ UNCHANGED <<downloads, outFile, locals, err, wrote, history>>

\* lines 127-129
Write ==
  /\ pc = "write"
  /\ outFile' = WrittenFile(outFile, output)
  /\ wrote' = TRUE
  /\ pc' = "report"
  /\ UNCHANGED <<downloads, outDir, locals, err, history>>

\* lines 131-140
Report ==
  /\ pc = "report"
  /\ output.metadata.years # <<>>
  /\ \E lines \in TopNations(yearly_by_country) : printed' = lines
  /\ pc' = "done"
  /\ UNCHANGED <<downloads, fs, dataset_path, df, yearly_by_country,
                 species_yearly, output, err, wrote, history>>

\* line 132, years[0] of an empty list raises IndexError
ReportFail ==
  /\ pc = "report"
  /\ output.metadata.years = <<>>
  /\ Fail("IndexError", <<>>)
  /\ UNCHANGED <<downloads, fs, locals, wrote, history>>

\* ---- the environment: I/O failures and a second invocation
\* line 124, mkdir raises
MkdirFail ==
  /\ pc = "mkdir"
  /\ Fail("OSError", <<>>)
  /\ UNCHANGED <<downloads, fs, locals, wrote, history>>

\* line 128, open raises
OpenFail ==
  /\ pc = "write"
  /\ Fail("OSError", <<>>)
  /\ UNCHANGED <<downloads, fs, locals, wrote, history>>

\* lines 128-129, the file is opened (truncated) and a write of json.dump raises
DumpFail ==
  /\ pc = "write"
  /\ \E k \in 0..(Len(Serialize(output)) - 1) :
       outFile' = [exists |-> TRUE, content |-> SubSeq(Serialize(output), 1, k)]
  /\ Fail("OSError", <<>>)
  /\ UNCHANGED <<downloads, outDir, locals, wrote, history>>

\* the operator runs the script again after a run that wrote its output
Rerun ==
  /\ pc \in {"done", "failed"}
  /\ wrote
  /\ run < MaxRuns
  /\ run' = run + 1
  /\ prevOut' = <<outFile.content>>
  /\ startDir' = outDir
  /\ startFile' = outFile
  /\ pc' = "find"
  /\ dataset_path' = <<>>
  /\ df' = NoTable
  /\ yearly_by_country' = <<>>
  /\ species_yearly' = <<>>
  /\ output' = NoOutput
  /\ printed' = <<>>
  /\ err' = NoError
  /\ wrote' = FALSE
  /\ UNCHANGED <<downloads, fs, origFile>>

Next ==
  \/ FindDataset
  \/ FindDatasetFail
  \/ Load
  \/ LoadFail
  \/ Transform
  \/ TransformFail
  \/ Mkdir
  \/ Write
  \/ Report
  \/ ReportFail

NextEnv ==
  \/ Next
  \/ MkdirFail
  \/ OpenFail
  \/ DumpFail
  \/ Rerun

Spec == Init /\ [][Next]_vars
SpecEnv == InitEnv /\ [][NextEnv]_vars

\* ------------------------------------------------------------- properties
RECURSIVE SeqSum(_)
SeqSum(s) == IF s = <<>> THEN 0 ELSE Head(s) + SeqSum(Tail(s))

\* the document has been built in this run
Built == output # NoOutput
\* the rows of the sheet that was loaded, as they are in the file
RawRows == dataset_path[1].sheet.rows
RawColumns == dataset_path[1].sheet.columns
Entries == output.byCountryYear
Timeline == output.timeline
Catalogued(n) == \E i \in 1..Len(COUNTRY_CODES) : COUNTRY_CODES[i][1] = n

\* sum of a column over the input rows of a year and nation / of a year
RawPairSum(y, n, col) ==
  SeqSum([i \in 1..Len(RawRows) |->
            IF RawRows[i]["Year"] = y /\ RawRows[i]["Nation"] = n
            THEN RawRows[i][col] ELSE 0])
RawYearSum(y, col) ==
  SeqSum([i \in 1..Len(RawRows) |-> IF RawRows[i]["Year"] = y THEN RawRows[i][col] ELSE 0])

\* an entry's value for a timeline field: its total, or its species count (0 if omitted)
EntryValue(e, field) ==
  IF field = "total" THEN e.total
  ELSE IF field \in DOMAIN e.species THEN e.species[field] ELSE 0
EntriesYearSum(y, field) ==
  SeqSum([i \in 1..Len(Entries) |->
            IF Entries[i].year = y THEN EntryValue(Entries[i], field) ELSE 0])

\* C1: every (Year, Nation) pair of the input, catalogued or not, has exactly one
\* byCountryYear entry, whose total is the sum of Total over the pair's rows.
ByCountryYearCoversEveryPair ==
  Built =>
    \A i \in 1..Len(RawRows) :
      LET y == RawRows[i]["Year"]
          n == RawRows[i]["Nation"]
          hits == {j \in 1..Len(Entries) : Entries[j].year = y /\ Entries[j].country = n}
      IN /\ Cardinality(hits) = 1
         /\ \A j \in hits : Entries[j].total = RawPairSum(y, n, "Total")

\* C2: every field of every timeline row equals the sum of that field over the
\* byCountryYear entries of the row's year.
TimelineEqualsByCountryYearSums ==
  Built =>
    \A t \in 1..Len(Timeline) :
      \A field \in DOMAIN Timeline[t] \ {"year"} :
        Timeline[t][field] = EntriesYearSum(Timeline[t]["year"], field)

\* C3: every year of metadata.years is the year of a timeline row and of a
\* byCountryYear entry.
MetadataYearsAppearInBothViews ==
  Built =>
    \A k \in 1..Len(output.metadata.years) :
      /\ \E t \in 1..Len(Timeline) : Timeline[t]["year"] = output.metadata.years[k]
      /\ \E j \in 1..Len(Entries) : Entries[j].year = output.metadata.years[k]

\* C4: one timeline row per year of the input, in ascending year order, whose
\* total is the sum of Total over all input rows of that year.
TimelineTotalsMatchInput ==
  Built =>
    /\ \A i \in 1..Len(RawRows) :
         Cardinality({t \in 1..Len(Timeline) : Timeline[t]["year"] = RawRows[i]["Year"]}) = 1
    /\ \A t, u \in 1..Len(Timeline) : t < u => Timeline[t]["year"] < Timeline[u]["year"]
    /\ \A t \in 1..Len(Timeline) :
         Timeline[t]["total"] = RawYearSum(Timeline[t]["year"], "Total")

\* C4 witness: a year with a catalogued and an uncatalogued nation, both with catches
TimelineSumsTwoNations ==
  /\ Built
  /\ \E i, j \in 1..Len(RawRows) :
       /\ RawRows[i]["Year"] = RawRows[j]["Year"]
       /\ Catalogued(RawRows[i]["Nation"])
       /\ ~Catalogued(RawRows[j]["Nation"])
       /\ RawRows[i]["Total"] > 0
       /\ RawRows[j]["Total"] > 0

UncataloguedNationsOnlyInTimeline ==
  Built =>
    /\ \A j \in 1..Len(Entries) :
         /\ Entries[j].code # NaN
         /\ Catalogued(Entries[j].country)
         /\ Entries[j].code = Lookup(COUNTRY_CODES, Entries[j].country)
    /\ \A i \in 1..Len(RawRows) :
         ~Catalogued(RawRows[i]["Nation"]) =>
           /\ \A j \in 1..Len(Entries) : Entries[j].country # RawRows[i]["Nation"]
           /\ \A k \in 1..Len(printed) : printed[k][1] # RawRows[i]["Nation"]
           /\ \E k \in 1..Len(output.metadata.years) :
                output.metadata.years[k] = RawRows[i]["Year"]
           /\ \E t \in 1..Len(Timeline) :
                /\ Timeline[t]["year"] = RawRows[i]["Year"]
                /\ Timeline[t]["total"] = RawYearSum(RawRows[i]["Year"], "Total")

\* C10 witness: a finished run over a catalogued and an uncatalogued nation
ReportedWithUncataloguedNation ==
  /\ pc = "done"
  /\ printed # <<>>
  /\ \E i \in 1..Len(RawRows) :
       ~Catalogued(RawRows[i]["Nation"]) /\ RawRows[i]["Total"] > 0

\* the names "*catches*.xlsx" or "*Catches*.xlsx" stand for
CatchesNames ==
  {"catches_2023.xlsx", "IWC_Catches.xlsx", "Catches_catches.xlsx",
   "catches_bad.xlsx", "Catches_raw.xlsx"}
Matching == {i \in 1..Len(downloads) : downloads[i].name \in CatchesNames}

\* C5: with no matching file the run ends in the dataset-not-found error, which
\* carries the source URL, and leaves the output directory and file as they were.
NoDatasetFailsWithoutOutput ==
  (Matching = {} /\ pc # "find") =>
    /\ pc = "failed"
    /\ err.type = "FileNotFoundError"
    /\ URL \in SeqRange(err.msg)
    /\ outDir = startDir
    /\ outFile = startFile
    /\ ~ENABLED NextEnv

\* C5 witness: the error raised beside an unrelated spreadsheet and an old output
NotFoundBesideOldOutput ==
  /\ pc = "failed"
  /\ err.type = "FileNotFoundError"
  /\ downloads # <<>>
  /\ outFile = StaleFile

\* C6: a run that ends in an error has not changed the output file.
FailedRunLeavesOutputUnchanged ==
  pc = "failed" => outFile = startFile

\* C7: a run that completes its write after an earlier completed write leaves
\* exactly the earlier content, whatever the file held before the first run.
RerunReproducesOutput ==
  (wrote /\ prevOut # <<>>) => (outFile.exists /\ outFile.content = prevOut[1])

\* C7 witness: the second write finished, the first one having replaced an old file
SecondRunOverStaleFile ==
  /\ run = 2
  /\ pc = "done"
  /\ wrote
  /\ origFile = StaleFile

\* past find_dataset, the chosen path is a matching file of the directory that is
\* no older than any matching file
ReturnsNewestMatch ==
  (Matching # {} /\ pc # "find") =>
    /\ dataset_path # <<>>
    /\ \E i \in Matching : downloads[i] = dataset_path[1]
    /\ \A j \in Matching : downloads[j].mtime <= dataset_path[1].mtime

\* C9: when a file matches, find_dataset returns a matching file whose mtime is
\* greater than or equal to that of every matching file, and the directory is
\* never changed.
FindDatasetPicksNewest ==
  []ReturnsNewestMatch /\ [][downloads' = downloads]_vars

\* C9 witness: the newer file is listed after an older one that matches both patterns
NewerFileListedLast ==
  /\ dataset_path # <<>>
  /\ Len(downloads) >= 2
  /\ downloads[1].name = "Catches_catches.xlsx"
  /\ downloads[2].name \in CatchesNames
  /\ downloads[1].mtime < downloads[2].mtime
  /\ dataset_path[1] = downloads[2]

====
